---------------------------- MODULE Spec2Model ----------------------------
(***************************************************************************)
(* A model of the SAS macro documentation pipeline of src/app.py.          *)
(*                                                                         *)
(* Text is a sequence of one-character strings, so that the regular        *)
(* expressions, str.strip, str.split and str.lower of the source are       *)
(* computed character by character, as the code computes them.             *)
(***************************************************************************)
EXTENDS Integers, Sequences, FiniteSets, TLC

VARIABLES
    op,               \* which entry point this behaviour exercises
    pc,               \* position of the entry point: its current stage
    code,             \* preview_documentation: data['code'], as received
    sas_code,         \* the text the entry point works on (its sas_code)
    generate_header,  \* preview_documentation: data['generate_header']
    show_comments,    \* preview_documentation: data['show_comments']
    programmer_name,  \* preview_documentation: data['programmer_name']
    project_name,     \* preview_documentation: data['project_name']
    program_specs,    \* preview_documentation: data['program_specs']
    macro_name,       \* preview_documentation: macro_match.group(1)
    processed_code,   \* preview_documentation: the working source
    header,           \* preview_documentation: header (None or text)
    calls,            \* every enrichment call issued so far, with its reply
    stages,           \* the stages entered so far, in order
    response,         \* what preview_documentation returned
    result,           \* what the function exercised returned
    given,            \* the pieces the text of an extractor run was built from
    frame             \* the local variables of the function in progress

vars == <<op, pc, code, sas_code, generate_header, show_comments,
          programmer_name, project_name, program_specs, macro_name,
          processed_code, header, calls, stages, response, result, given,
          frame>>

-----------------------------------------------------------------------------
(* Characters and character classes (Python's str methods and re module).  *)

UpperChars == {"A","B","C","D","E","F","G","H","I","J","K","L","M",
               "N","O","P","Q","R","S","T","U","V","W","X","Y","Z"}
LowerChars == {"a","b","c","d","e","f","g","h","i","j","k","l","m",
               "n","o","p","q","r","s","t","u","v","w","x","y","z"}
DigitChars == {"0","1","2","3","4","5","6","7","8","9"}

\* A character is a one-character string of Latin-1 (U+0000 to U+00FF).
\* The patterns of the source are str patterns, so \w, \s and \d take the
\* Unicode classes, and str.strip() and str.lower() the Unicode properties.

\* the letters and numeric characters of Latin-1 beyond ASCII
Latin1WordChars ==
    {"ª", "²", "³", "µ", "¹", "º", "¼", "½", "¾", "À", "Á", "Â", "Ã", "Ä", "Å", "Æ",
     "Ç", "È", "É", "Ê", "Ë", "Ì", "Í", "Î", "Ï", "Ð", "Ñ", "Ò", "Ó", "Ô", "Õ", "Ö",
     "Ø", "Ù", "Ú", "Û", "Ü", "Ý", "Þ", "ß", "à", "á", "â", "ã", "ä", "å", "æ", "ç",
     "è", "é", "ê", "ë", "ì", "í", "î", "ï", "ð", "ñ", "ò", "ó", "ô", "õ", "ö", "ø",
     "ù", "ú", "û", "ü", "ý", "þ", "ÿ"}

\* re: \w
IsWord(c) ==
    c \in UpperChars \cup LowerChars \cup DigitChars \cup {"_"} \cup Latin1WordChars

\* re: \s, and the characters str.strip() removes: space, \t \n \v \f \r,
\* U+001C to U+001F, U+0085 and U+00A0
IsSpace(c) ==
    c \in {" ", "\t", "\n", "\r", "\f", "", "", "", "", "",
           "", " "}

\* the capital letters of Latin-1, each with its lower-case letter
LowerCase ==
    "A" :> "a" @@ "B" :> "b" @@ "C" :> "c" @@ "D" :> "d" @@ "E" :> "e" @@ "F" :> "f"
    @@ "G" :> "g" @@ "H" :> "h" @@ "I" :> "i" @@ "J" :> "j" @@ "K" :> "k" @@ "L" :> "l"
    @@ "M" :> "m" @@ "N" :> "n" @@ "O" :> "o" @@ "P" :> "p" @@ "Q" :> "q" @@ "R" :> "r"
    @@ "S" :> "s" @@ "T" :> "t" @@ "U" :> "u" @@ "V" :> "v" @@ "W" :> "w" @@ "X" :> "x"
    @@ "Y" :> "y" @@ "Z" :> "z" @@ "À" :> "à" @@ "Á" :> "á" @@ "Â" :> "â" @@ "Ã" :> "ã"
    @@ "Ä" :> "ä" @@ "Å" :> "å" @@ "Æ" :> "æ" @@ "Ç" :> "ç" @@ "È" :> "è" @@ "É" :> "é"
    @@ "Ê" :> "ê" @@ "Ë" :> "ë" @@ "Ì" :> "ì" @@ "Í" :> "í" @@ "Î" :> "î" @@ "Ï" :> "ï"
    @@ "Ð" :> "ð" @@ "Ñ" :> "ñ" @@ "Ò" :> "ò" @@ "Ó" :> "ó" @@ "Ô" :> "ô" @@ "Õ" :> "õ"
    @@ "Ö" :> "ö" @@ "Ø" :> "ø" @@ "Ù" :> "ù" @@ "Ú" :> "ú" @@ "Û" :> "û" @@ "Ü" :> "ü"
    @@ "Ý" :> "ý" @@ "Þ" :> "þ"

\* str.lower(), and the folding re.IGNORECASE applies to a literal
Lower(c) == IF c \in DOMAIN LowerCase THEN LowerCase[c] ELSE c

LowerText(t) == [k \in 1..Len(t) |-> Lower(t[k])]

\* t[i..] (1-based), empty when i is past the end
Tail_(t, i) == SubSeq(t, i, Len(t))

\* the literal lit stands at position i of t
LitAt(t, i, lit) ==
    /\ i >= 1
    /\ i + Len(lit) - 1 <= Len(t)
    /\ \A k \in 1..Len(lit) : t[i + k - 1] = lit[k]

\* the literal lit stands at position i of t, ignoring case (lit is lower case)
LitAtCI(t, i, lit) ==
    /\ i >= 1
    /\ i + Len(lit) - 1 <= Len(t)
    /\ \A k \in 1..Len(lit) : Lower(t[i + k - 1]) = lit[k]

\* the end (exclusive) of the longest run of \s characters starting at i
SpaceRunEnd(t, i) ==
    CHOOSE j \in i..(Len(t) + 1) :
        /\ \A k \in i..(j - 1) : IsSpace(t[k])
        /\ (j = Len(t) + 1 \/ ~IsSpace(t[j]))

\* the end (exclusive) of the longest run of \w characters starting at i
WordRunEnd(t, i) ==
    CHOOSE j \in i..(Len(t) + 1) :
        /\ \A k \in i..(j - 1) : IsWord(t[k])
        /\ (j = Len(t) + 1 \/ ~IsWord(t[j]))

\* str.strip()
Strip(t) ==
    LET keep == {k \in 1..Len(t) : ~IsSpace(t[k])}
    IN  IF keep = {} THEN <<>>
        ELSE LET lo == CHOOSE k \in keep : \A m \in keep : k <= m
                 hi == CHOOSE k \in keep : \A m \in keep : k >= m
             IN  SubSeq(t, lo, hi)

\* the first position at which the (non-empty) separator sep stands, 0 if none
FindSep(t, sep) ==
    LET at == {i \in 1..Len(t) : LitAt(t, i, sep)}
    IN  IF at = {} THEN 0 ELSE CHOOSE i \in at : \A m \in at : i <= m

\* str.split(sep): the pieces between the non-overlapping occurrences of sep,
\* left to right, empty pieces kept
RECURSIVE Split(_, _)
Split(t, sep) ==
    LET i == FindSep(t, sep)
    IN  IF i = 0 THEN <<t>>
        ELSE <<SubSeq(t, 1, i - 1)>> \o Split(Tail_(t, i + Len(sep)), sep)

\* sep.join(parts)
RECURSIVE Join(_, _)
Join(parts, sep) ==
    IF parts = <<>> THEN <<>>
    ELSE IF Len(parts) = 1 THEN parts[1]
    ELSE parts[1] \o sep \o Join(Tail(parts), sep)

\* [x for x in s if P(x)] for the predicate "is not empty"
RECURSIVE NonEmpty(_)
NonEmpty(s) ==
    IF s = <<>> THEN <<>>
    ELSE IF s[1] = <<>> THEN NonEmpty(Tail(s))
    ELSE <<s[1]>> \o NonEmpty(Tail(s))

\* the literals of the source's patterns and templates
TxtMacro == <<"%","m","a","c","r","o">>
TxtNone == <<"N","o","n","e">>
TxtParameter == <<"P","a","r","a","m","e","t","e","r"," ">>
TxtForTheMacro == <<" ","f","o","r"," ","t","h","e"," ","m","a","c","r","o">>

\* a regular expression's match object: none, or the text of group 1
NoMatch == [found |-> FALSE, group |-> <<>>]
Match(g) == [found |-> TRUE, group |-> g]

-----------------------------------------------------------------------------
(* The structural extractors of src/app.py.                                *)

\* `min` of a non-empty set of positions
MinOf(S) == CHOOSE i \in S : \A m \in S : i <= m
MaxOf(S) == CHOOSE i \in S : \A m \in S : i >= m

\* re.search(r'%macro\s+(\w+)', sas_code, re.IGNORECASE): the positions at
\* which the pattern matches
MacroNameAt(t, i) ==
    /\ LitAtCI(t, i, TxtMacro)
    /\ LET e == SpaceRunEnd(t, i + 6)
       IN  e > i + 6 /\ WordRunEnd(t, e) > e

\* the match object of that search: the leftmost match, \w+ greedy
MacroNameSearch(t) ==
    LET at == {i \in 1..Len(t) : MacroNameAt(t, i)}
    IN  IF at = {} THEN NoMatch
        ELSE LET e == SpaceRunEnd(t, MinOf(at) + 6)
             IN  Match(SubSeq(t, e, WordRunEnd(t, e) - 1))

\* `%macro` alone, with no name required after it
HasMacro_Loose(t) == \E i \in 1..Len(t) : LitAtCI(t, i, TxtMacro)

\* `if not macro_match` (lines 294 and 123), negated
HasMacro(t) == MacroNameSearch(t).found

\* r'%macro\s+\w+\((.*?)\);' at position i: the position of the "(" that
\* opens the parameter list, 0 when the pattern cannot match up to there
ParamListOpen(t, i) ==
    IF ~MacroNameAt(t, i) THEN 0
    ELSE LET w == WordRunEnd(t, SpaceRunEnd(t, i + 6))
         IN  IF w <= Len(t) /\ t[w] = "(" THEN w ELSE 0

\* the position of the ");" that closes the list opened at position o: the
\* first ");" after o, reached by "." which matches no newline; 0 if none
ParamListClose(t, o) ==
    LET at == {j \in (o + 1)..Len(t) : LitAt(t, j, <<")", ";">>)}
    IN  IF at = {} THEN 0
        ELSE IF \E k \in (o + 1)..(MinOf(at) - 1) : t[k] = "\n" THEN 0
        ELSE MinOf(at)

\* re.search(r'%macro\s+\w+\((.*?)\);', sas_code, re.IGNORECASE | re.MULTILINE)
ParamListSearch(t) ==
    LET at == {i \in 1..Len(t) :
                  ParamListOpen(t, i) > 0 /\ ParamListClose(t, ParamListOpen(t, i)) > 0}
    IN  IF at = {} THEN NoMatch
        ELSE LET o == ParamListOpen(t, MinOf(at))
             IN  Match(SubSeq(t, o + 1, ParamListClose(t, o) - 1))

\* [p.strip() for p in xs]
StripAll(xs) == [k \in 1..Len(xs) |-> Strip(xs[k])]

\* params = [p.strip() for p in params_str.split(',') if p.strip()]
ParamDecls(t) ==
    LET m == ParamListSearch(t)
    IN  IF ~m.found THEN <<>> ELSE NonEmpty(StripAll(Split(m.group, <<",">>)))

\* param_name = param.split('=')[0].strip()
ParamName(param) == Strip(Split(param, <<"=">>)[1])

\* default_value = param_parts[1].strip() if len(param_parts) > 1 else ''
ParamDefault(param) ==
    LET param_parts == Split(param, <<"=">>)
    IN  IF Len(param_parts) > 1 THEN Strip(param_parts[2]) ELSE <<>>

\* The reply of the enrichment collaborator to one call.
\*   kind "fail"        : client.chat.completions.create raised
\*   kind "unparseable" : json.loads raised, or the JSON is not an object
\*   kind "nokey"       : a JSON object without the key the caller reads
\*   kind "ok"          : a JSON object; text is the value of the key
Reply(kind, text) == [kind |-> kind, text |-> text]
ReplyFail == Reply("fail", <<>>)
ReplyUnparseable == Reply("unparseable", <<>>)
ReplyNoKey == Reply("nokey", <<>>)

\* the call ended in the caller's except clause
Failed(reply) == reply.kind \in {"fail", "unparseable"}

\* f"Parameter {param_name} for the macro"
TemplatedDescription(param_name) == TxtParameter \o param_name \o TxtForTheMacro

\* a description left empty when the call fails or the key is missing
GenerateParameterDescription_Empty(param_name, reply) ==
    IF reply.kind = "ok" THEN reply.text ELSE <<>>

\* generate_parameter_description(param_name, macro_code), given the reply
GenerateParameterDescription(param_name, reply) ==
    IF reply.kind = "ok" THEN reply.text
    ELSE TemplatedDescription(param_name)

\* one element of param_list: [param_name, default_value or "None", description]
Descriptor(param, reply) ==
    <<ParamName(param),
      IF ParamDefault(param) = <<>> THEN TxtNone ELSE ParamDefault(param),
      GenerateParameterDescription(ParamName(param), reply)>>

\* the loop of extract_macro_parameters over params (lines 98-113):
\* replies[k] answers the k-th description call
DescribeParams(params, replies) ==
    [k \in 1..Len(params) |-> Descriptor(params[k], replies[k])]

\* extract_macro_parameters(sas_code)
ExtractMacroParameters(t, replies) == DescribeParams(ParamDecls(t), replies)

\* re.findall(r'%(\w+)\s*\(', sas_code, re.IGNORECASE): a match starts at i
MacroCallAt(t, i) ==
    /\ i <= Len(t) /\ t[i] = "%"
    /\ LET w == WordRunEnd(t, i + 1)
           s == SpaceRunEnd(t, w)
       IN  w > i + 1 /\ s <= Len(t) /\ t[s] = "("

\* group 1 of the match that starts at i
MacroCallName(t, i) == SubSeq(t, i + 1, WordRunEnd(t, i + 1) - 1)

\* macro_calls: the list findall returns, the matches from left to right,
\* each search resuming where the last match ended
RECURSIVE MacroCallsFrom(_, _)
MacroCallsFrom(t, i) ==
    IF i > Len(t) THEN <<>>
    ELSE IF MacroCallAt(t, i)
         THEN <<MacroCallName(t, i)>>
                  \o MacroCallsFrom(t, SpaceRunEnd(t, WordRunEnd(t, i + 1)) + 1)
         ELSE MacroCallsFrom(t, i + 1)

\* set(macro_calls)
UniqueCalls(t) ==
    LET macro_calls == MacroCallsFrom(t, 1)
    IN  {macro_calls[k] : k \in 1..Len(macro_calls)}

\* list(set(...)): a set is listed in an arbitrary order
Orderings(S) ==
    {s \in [1..Cardinality(S) -> S] : \A a, b \in 1..Cardinality(S) : a # b => s[a] # s[b]}

\* ", ".join([f"%{macro}" for macro in unique_calls]), "" when there is none
JoinCalls(order) == Join([k \in 1..Len(order) |-> <<"%">> \o order[k]], <<",", " ">>)

\* find_macro_calls without the set(): every call listed, in source order
FindMacroCalls_NoSet(t) == {JoinCalls(MacroCallsFrom(t, 1))}

\* find_macro_calls(sas_code): every value it can return
FindMacroCalls(t) == {JoinCalls(order) : order \in Orderings(UniqueCalls(t))}

TxtData == <<"d","a","t","a">>
TxtProc == <<"p","r","o","c">>
TxtNull == <<"_","n","u","l","l","_">>

\* ^ under re.MULTILINE
LineStart(t, i) == i = 1 \/ (i >= 2 /\ i <= Len(t) + 1 /\ t[i - 1] = "\n")

\* r'^\s*data\s+(?!_null_)' at position i: the lengths \s+ may take, each
\* leaving a position where the lookahead does not see _null_
DataSpaceEnds(t, i) ==
    LET d == SpaceRunEnd(t, i) + 4
    IN  {k \in (d + 1)..SpaceRunEnd(t, d) : ~LitAt(t, k, TxtNull)}

\* the end of the match at i (\s+ greedy, backtracking), 0 when there is none
DataMatchEnd(t, i) ==
    IF LineStart(t, i) /\ LitAt(t, SpaceRunEnd(t, i), TxtData) /\ DataSpaceEnds(t, i) # {}
    THEN MaxOf(DataSpaceEnds(t, i)) ELSE 0

\* r'^\s*proc\s+\w+' at position i: the end of the match, 0 when there is none
ProcMatchEnd(t, i) ==
    IF LineStart(t, i) /\ LitAt(t, SpaceRunEnd(t, i), TxtProc)
    THEN LET p == SpaceRunEnd(t, i) + 4
             m == SpaceRunEnd(t, p)
         IN  IF m > p /\ WordRunEnd(t, m) > m THEN WordRunEnd(t, m) ELSE 0
    ELSE 0

\* len(re.findall(...)): non-overlapping matches, scanned from position i
RECURSIVE DataCountFrom(_, _)
DataCountFrom(t, i) ==
    IF i > Len(t) THEN 0
    ELSE IF DataMatchEnd(t, i) > 0 THEN 1 + DataCountFrom(t, DataMatchEnd(t, i))
    ELSE DataCountFrom(t, i + 1)

RECURSIVE ProcCountFrom(_, _)
ProcCountFrom(t, i) ==
    IF i > Len(t) THEN 0
    ELSE IF ProcMatchEnd(t, i) > 0 THEN 1 + ProcCountFrom(t, ProcMatchEnd(t, i))
    ELSE ProcCountFrom(t, i + 1)

\* analyze_macro_structure(macro_code)
AnalyzeMacroStructure(t) ==
    LET lowercase_code == LowerText(t)
        data_count == DataCountFrom(lowercase_code, 1)
        proc_count == ProcCountFrom(lowercase_code, 1)
    IN  [has_data_proc |-> data_count + proc_count > 0,
         data_steps |-> data_count,
         proc_steps |-> proc_count]

-----------------------------------------------------------------------------
(* generate_program_header and generate_intelligent_comments.              *)

\* ai_response.get('purpose', 'Purpose not available')
TxtPurposeNotAvailable ==
    <<"P","u","r","p","o","s","e"," ","n","o","t"," ","a","v","a","i","l",
      "a","b","l","e">>

\* ai_response.get('example', 'Example not available')
TxtExampleNotAvailable ==
    <<"E","x","a","m","p","l","e"," ","n","o","t"," ","a","v","a","i","l",
      "a","b","l","e">>

TxtNoParameters ==
    <<"N","o"," ","p","a","r","a","m","e","t","e","r","s">>

\* f"[{param[0]}/{param[1]}/{param[2]}]"
ParamLine(param) ==
    <<"[">> \o param[1] \o <<"/">> \o param[2] \o <<"/">> \o param[3] \o <<"]">>

\* "\n".join(... for param in macro_params) if macro_params else "No parameters"
ParamsSection(macro_params) ==
    IF macro_params = <<>> THEN TxtNoParameters
    ELSE Join([k \in 1..Len(macro_params) |-> ParamLine(macro_params[k])], <<"\n">>)

\* The header collaborator's reply: kind as for Reply; purpose and example
\* are the values of the two keys, each absent or a text.
Absent == [some |-> FALSE, text |-> <<>>]
Some(t) == [some |-> TRUE, text |-> t]
HeaderReply(kind, purpose, example) ==
    [kind |-> kind, purpose |-> purpose, example |-> example]

\* dict.get(key, default)
GetOr(field, default) == IF field.some THEN field.text ELSE default

\* program_specs: the four keys the header reads, each absent or a text
ProgramSpecs(type, level, category, heritage) ==
    [type |-> type, level |-> level, category |-> category, heritage |-> heritage]

\* the f-string of generate_program_header (lines 216-257), character by
\* character; programmer, project and specs are its programmer_name,
\* project_name and program_specs, current_date is datetime.now().strftime("%Y-%m-%d")
HeaderText(program_name, programmer, current_date, project, purpose, macro_example, specs, macro_calls, params_section) ==
    LET Rep(c, n) == [k \in 1..n |-> c]
    IN
        <<"\n","/">>
        \o Rep("*", 88)
        \o <<"\n","*","*">>
        \o Rep(" ", 20)
        \o <<"C","o","p","y","r","i","g","h","t",":"," ","B","r","i","s","t",
             "o","l","-","M","y","e","r","s"," ","S","q","u","i","b","b"," ",
             "C","o","m","p","a","n","y","\n">>
        \o Rep("*", 89)
        \o <<"/"," "," "," "," "," "," "," "," ","\n","/">>
        \o Rep("*", 88)
        \o <<"\n","@","S","t","a","r","t","\n","\n","@","P","r","o","g","r","a",
             "m"," ","N","a","m","e",":"," "," ">>
        \o program_name
        \o <<" ","\n","@","P","r","o","g","r","a","m","m","e","r",":"," "," ",
             " "," ">>
        \o programmer
        \o <<" ","\n","@","D","a","t","e",":">>
        \o Rep(" ", 10)
        \o current_date
        \o <<"\n","@","P","r","o","j","e","c","t",":"," "," "," "," "," "," ",
             " ">>
        \o project
        \o <<"\n","@","P","u","r","p","o","s","e",":"," "," "," "," "," "," ",
             " ">>
        \o purpose
        \o <<"\n","\n","{","M","a","c","r","o"," ","C","a","l","l","e","d"," ",
             "E","x","a","m","p","l","e",":","\n">>
        \o macro_example
        \o <<"\n","}","\n","\n","{","P","r","o","g","r","a","m"," ","S","p","e",
             "c","i","f","i","c","a","t","i","o","n","s",":"," "," "," ","\n",
             "#","T","y","p","e","/","L","e","v","e","l","/","C","a","t","e",
             "g","o","r","y","/","H","e","r","i","t","a","g","e"," ","C","o",
             "m","p","a","n","y","\n","[">>
        \o specs.type.text
        \o <<"/">>
        \o specs.level.text
        \o <<"/">>
        \o specs.category.text
        \o <<"/">>
        \o specs.heritage.text
        \o <<"]","\n","}","\n","\n","{","F","u","n","c","t","i","o","n","a","l",
             " ","S","p","e","c","i","f","i","c","a","t","i","o","n","s",":",
             "\n","@","I","n","p","u","t"," ","f","i","l","e","s",":"," "," ",
             "\n","@","O","u","t","p","u","t"," ","P","r","o","d","u","c","e",
             "d",":"," ","\n","@","M","a","c","r","o","s"," ","c","a","l","l",
             "e","d"," ","b","y",":"," ","\n","@","M","a","c","r","o","s"," ",
             "U","s","e","d",":"," ">>
        \o macro_calls
        \o <<"\n","}","\n","\n","{","M","a","c","r","o"," ","P","a","r","a","m",
             "e","t","e","r","s",":">>
        \o Rep(" ", 16)
        \o <<"\n","#","P","a","r","a","m","e","t","e","r"," ","N","a","m","e",
             "/","D","e","f","a","u","l","t","/","D","e","s","c","r","i","p",
             "t","i","o","n","\n">>
        \o params_section
        \o <<"\n","}","\n","\n","{","M","o","d","i","f","i","c","a","t","i","o",
             "n"," ","H","i","s","t","o","r","y",":"," "," ","\n","#","D","a",
             "t","e","/","V","e","r","s","i","o","n","/","P","r","o","g","r",
             "a","m","m","e","r","/","D","e","s","c","r","i","p","t","i","o",
             "n"," "," ","\n","[">>
        \o current_date
        \o <<"/","1","/">>
        \o programmer
        \o <<"/","I","n","i","t","i","a","l"," ","V","e","r","s","i","o","n",
             "]"," ","\n","}","\n","\n","@","E","n","d","\n">>
        \o Rep("*", 88)
        \o <<"/","\n">>

\* generate_program_header, once its calls are answered: the header text.
\* Raises are handled by the caller.
GenerateProgramHeader(program_name, programmer, project, current_date, macro_params, macro_calls, specs, hreply) ==
    HeaderText(program_name, programmer, current_date, project,
               GetOr(hreply.purpose, TxtPurposeNotAvailable),
               GetOr(hreply.example, TxtExampleNotAvailable),
               specs,
               macro_calls,
               ParamsSection(macro_params))

\* a failed call or reply taken as an empty reply: only a missing
\* program_specs key raises
HeaderRaises_Defaults(hreply, specs) ==
    ~(specs.type.some /\ specs.level.some
      /\ specs.category.some /\ specs.heritage.some)

\* generate_program_header raises (lines 261-263): the call raised,
\* json.loads or ai_response.get did, or a program_specs[...] lookup of the
\* f-string did (KeyError)
HeaderRaises(hreply, specs) ==
    \/ Failed(hreply)
    \/ ~(specs.type.some /\ specs.level.some
         /\ specs.category.some /\ specs.heritage.some)

\* str(e) of the KeyError of the first program_specs[...] lookup that
\* fails; the f-string reads type, level, category, heritage in this order
MissingSpec(specs) ==
    IF ~specs.type.some THEN "'type'"
    ELSE IF ~specs.level.some THEN "'level'"
    ELSE IF ~specs.category.some THEN "'category'"
    ELSE "'heritage'"

\* the annotated text, and nothing when the call failed
GenerateIntelligentComments_Empty(t, creply) ==
    IF creply.kind = "ok" THEN creply.text ELSE <<>>

\* generate_intelligent_comments(sas_code), given the collaborator's reply:
\* result.get('code', sas_code), and sas_code when anything raised
GenerateIntelligentComments(t, creply) ==
    IF creply.kind = "ok" THEN creply.text ELSE t

-----------------------------------------------------------------------------
(* generate_doc_content and create_preview_content.                        *)

\* A JSON value found under a section key of the documentation content.
\*   type "str"      : text
\*   type "num"      : num
\*   type "list"     : items (a list of texts)
\*   type "table"    : an object with table_headers and table_rows
\*   type "features" : an object with main_section (text) and subsections (items)
Body(type, text, num, items, headers, rows) ==
    [type |-> type, text |-> text, num |-> num, items |-> items,
     headers |-> headers, rows |-> rows]
StrBody(t) == Body("str", t, 0, <<>>, <<>>, <<>>)
NumBody(n) == Body("num", <<>>, n, <<>>, <<>>, <<>>)
ListBody(items) == Body("list", <<>>, 0, items, <<>>, <<>>)
TableBody(headers, rows) == Body("table", <<>>, 0, <<>>, headers, rows)
FeaturesBody(main, subsections) == Body("features", main, 0, subsections, <<>>, <<>>)

\* Python's truth value of a body: `if content:`
Truthy(body) ==
    CASE body.type = "str" -> body.text # <<>>
      [] body.type = "num" -> body.num # 0
      [] body.type = "list" -> body.items # <<>>
      [] OTHER -> TRUE

\* The parsed reply of the documentation call: json.loads(content). It is a
\* JSON object (isdict, sections maps its keys to bodies) or another value.
DocContent(isdict, sections) == [isdict |-> isdict, sections |-> sections]
NoContent == DocContent(FALSE, <<>>)

\* the `sections` list of create_preview_content, in its order
PreviewSections ==
    <<"Overview", "Syntax", "Parameters", "Key Features and Functionalities",
      "Usage Examples", "Return Values", "Error Handling", "Summary">>

\* formatter(content) raises: create_examples_section returns a fixed
\* paragraph for a falsy argument (lines 503-504) and iterates any other,
\* which a number does not allow; create_parameters_table and
\* create_features_section return a fixed paragraph for a value that is not
\* an object, and the f-strings take any value
FormatterRaises(section_name, body) ==
    section_name = "Usage Examples" /\ body.type = "num" /\ Truthy(body)

\* doc_content.get(section_name, '') is truthy
Populated(doc_content, section_name) ==
    /\ section_name \in DOMAIN doc_content.sections
    /\ Truthy(doc_content.sections[section_name])

\* create_preview_content(doc_content): the headings emitted, in order; any
\* exception inside it is caught and the fixed error paragraph returned
PreviewHtml(error, headings) == [error |-> error, headings |-> headings]
CreatePreviewContent(doc_content) ==
    IF ~doc_content.isdict THEN PreviewHtml(TRUE, <<>>)
    ELSE IF \E k \in 1..Len(PreviewSections) :
                /\ Populated(doc_content, PreviewSections[k])
                /\ FormatterRaises(PreviewSections[k],
                                   doc_content.sections[PreviewSections[k]])
         THEN PreviewHtml(TRUE, <<>>)
         ELSE PreviewHtml(FALSE,
                  SelectSeq(PreviewSections, LAMBDA n : Populated(doc_content, n)))

\* The reply to the documentation call: kind "fail" (the call raised),
\* "unparseable" (json.loads raised) or "ok" (value is the parsed JSON).
ContentReply(kind, value) == [kind |-> kind, value |-> value]

-----------------------------------------------------------------------------
(* preview_documentation: one request, stage by stage.                     *)

\* jsonify({'error': ...}), status.  Where the message ends in str(e) of an
\* exception the program raised itself, error is the whole message; where e
\* came from the collaborator's call or from parsing its reply, error is
\* the message up to the stage name and the collaborator's text is left out.
ErrorResponse(status, error) ==
    [status |-> status, error |-> error, preview_html |-> PreviewHtml(FALSE, <<>>),
     macro_name |-> <<>>, content |-> NoContent, code |-> <<>>,
     show_code |-> FALSE, header |-> Absent]

\* jsonify([response_data])
OkResponse(preview_html, name, content, text, show_code, hdr) ==
    [status |-> 200, error |-> "", preview_html |-> preview_html,
     macro_name |-> name, content |-> content, code |-> text,
     show_code |-> show_code, header |-> hdr]

\* no response yet
NoResponse == ErrorResponse(0, "")

\* one enrichment call, as issued: its kind ("param", "header", "comments",
\* "content"), the stage that issued it, for a parameter description its
\* position and name, and the reply it got (kind, and text if any)
Call(kind, stage, index, name, reply) ==
    [kind |-> kind, stage |-> stage, index |-> index, name |-> name,
     reply |-> reply]

\* the calls the loop of extract_macro_parameters issues, in order
ParamCallsOf(params, stage, replies) ==
    [k \in 1..Len(params) |->
        Call("param", stage, k, ParamName(params[k]), replies[k])]

\* the calls extract_macro_parameters(t) issues, in order
ParamCalls(t, stage, replies) == ParamCallsOf(ParamDecls(t), stage, replies)

\* the values of data['code'] the model feeds to preview_documentation
PreviewSources ==
    { <<>>,
      <<" ","","\n">>,
      <<"d","a","t","a"," ","a",";">>,
      <<"%","m","a","c","r","o"," ",";">>,
      <<"%","m","a","c","r","o"," ","m",";">>,
      <<" ","%","m","a","c","r","o"," ","m","(","p",")",";","\n">>,
      <<"%","M","A","C","R","O"," ","m","(","p","=","1",",","q",")",";","%","m","(","1",")">>,
      <<"%","m","a","c","r","o"," ","m","(","a",",","\n","b",")",";">> }

\* the replies the collaborator gives to a parameter-description call
ParamReplies == {ReplyFail, Reply("ok", <<"d">>)}

\* the replies the collaborator gives to the header call
HeaderReplies ==
    {HeaderReply("fail", Absent, Absent), HeaderReply("unparseable", Absent, Absent)}
    \cup {HeaderReply("ok", pu, ex) :
             pu \in {Absent, Some(<<"p">>)},
             ex \in {Absent, Some(<<"%","m","(","2",")">>)}}

\* the replies the comment-annotation collaborator gives for the text t
TxtComment == <<"/","*","c","*","/","\n">>
CommentReplies(t) ==
    {ReplyFail, ReplyUnparseable, ReplyNoKey,
     Reply("ok", TxtComment \o t), Reply("ok", <<"x",";">>)}

\* the replies the collaborator gives to the documentation call
ContentReplies ==
    {ContentReply("fail", NoContent), ContentReply("unparseable", NoContent),
     ContentReply("ok", DocContent(FALSE, <<>>)),
     ContentReply("ok", DocContent(TRUE, <<>>)),
     ContentReply("ok", DocContent(TRUE,
        [n \in {"Summary", "Overview", "Parameters"} |->
            IF n = "Parameters"
            THEN TableBody(<<"Parameter", "Default", "Description">>,
                           << << <<"z">>, TxtNone, <<"d">> >> >>)
            ELSE StrBody(<<"s">>)])),
     ContentReply("ok", DocContent(TRUE,
        [n \in {"Overview", "Usage Examples"} |->
            IF n = "Overview" THEN StrBody(<<"s">>) ELSE NumBody(5)]))}

\* the flag set only by the header request
ShouldShowCode_HeaderOnly(gh, sc) == gh

\* should_show_code = generate_header or show_comments
ShouldShowCode(gh, sc) == gh \/ sc

\* every request going through CommentGen, requested or not
AfterHeader_AlwaysComment == "CommentGen"

\* the stage after HeaderGen, and after Start when no header is requested
AfterHeader == IF show_comments THEN "CommentGen" ELSE "ContentGen"

\* lines 272-301: read the request, require the code and a macro name
Start ==
    /\ op = "preview" /\ pc = "Start"
    /\ sas_code' = Strip(code)
    /\ IF sas_code' = <<>>
       THEN /\ response' = ErrorResponse(400, "SAS code is required")
            /\ pc' = "Error"
            /\ UNCHANGED <<macro_name, processed_code>>
       ELSE IF ~HasMacro(sas_code')
       THEN /\ response' = ErrorResponse(400, "No valid SAS macro found in the code")
            /\ pc' = "Error"
            /\ UNCHANGED <<macro_name, processed_code>>
       ELSE /\ macro_name' = MacroNameSearch(sas_code').group
            /\ processed_code' = sas_code'
            /\ pc' = IF generate_header THEN "HeaderGen" ELSE AfterHeader
            /\ UNCHANGED response
    /\ stages' = Append(stages, pc')
    /\ UNCHANGED <<op, code, generate_header, show_comments, programmer_name,
                   project_name, program_specs, header, calls, result, given, frame>>

\* lines 303-313: generate_program_header, which first extracts the
\* parameters (one description call each) and the macro calls, then asks
\* for purpose and example
HeaderGen ==
    /\ op = "preview" /\ pc = "HeaderGen"
    /\ LET params == ParamDecls(processed_code)
       IN
       \E replies \in [1..Len(params) -> ParamReplies],
          macro_calls \in FindMacroCalls(processed_code),
          hreply \in HeaderReplies,
          current_date \in {<<"2","0","2","6","-","1","0","-","3","0">>} :
          /\ calls' = calls \o ParamCallsOf(params, "HeaderGen", replies)
                            \o <<Call("header", "HeaderGen", 0, <<>>, Reply(hreply.kind, <<>>))>>
          /\ IF HeaderRaises(hreply, program_specs)
             THEN /\ response' = ErrorResponse(500,
                                     IF Failed(hreply)
                                     THEN "Failed to generate header"
                                     ELSE "Failed to generate header: " \o MissingSpec(program_specs))
                  /\ pc' = "Error"
                  /\ UNCHANGED <<header, processed_code>>
             ELSE LET text == GenerateProgramHeader(macro_name, programmer_name,
                                  project_name, current_date,
                                  DescribeParams(params, replies),
                                  macro_calls, program_specs, hreply)
                  IN  /\ header' = Some(text)
                      /\ processed_code' = text \o <<"\n">> \o processed_code
                      /\ pc' = AfterHeader
                      /\ UNCHANGED response
    /\ stages' = Append(stages, pc')
    /\ UNCHANGED <<op, code, sas_code, generate_header, show_comments, programmer_name,
                   project_name, program_specs, macro_name, result, given, frame>>

\* lines 315-322: generate_intelligent_comments, which catches every
\* exception of its own
CommentGen ==
    /\ op = "preview" /\ pc = "CommentGen"
    /\ \E creply \in CommentReplies(processed_code) :
          /\ calls' = Append(calls, Call("comments", "CommentGen", 0, <<>>, creply))
          /\ processed_code' = GenerateIntelligentComments(processed_code, creply)
    /\ pc' = "ContentGen"
    /\ stages' = Append(stages, pc')
    /\ UNCHANGED <<op, code, sas_code, generate_header, show_comments, programmer_name,
                   project_name, program_specs, macro_name,
                   header, response, result, given, frame>>

\* lines 324-345: generate_doc_content, then create_preview_content
ContentGen ==
    /\ op = "preview" /\ pc = "ContentGen"
    /\ IF ~HasMacro(processed_code)
       THEN \* raise ValueError("Could not find macro name in the code")
            /\ response' = ErrorResponse(500,
                  "Failed to generate documentation: Could not find macro name in the code")
            /\ pc' = "Error"
            /\ UNCHANGED calls
       ELSE LET params == ParamDecls(processed_code)
            IN
            \E replies \in [1..Len(params) -> ParamReplies],
               dreply \in ContentReplies :
               /\ calls' = calls \o ParamCallsOf(params, "ContentGen", replies)
                                 \o <<Call("content", "ContentGen", 0, <<>>, Reply(dreply.kind, <<>>))>>
               /\ IF Failed(dreply)
                  THEN /\ response' = ErrorResponse(500, "Failed to generate documentation")
                       /\ pc' = "Error"
                  ELSE /\ response' = OkResponse(CreatePreviewContent(dreply.value),
                                          macro_name, dreply.value, processed_code,
                                          ShouldShowCode(generate_header, show_comments),
                                          header)
                       /\ pc' = "Done"
    /\ stages' = Append(stages, pc')
    /\ UNCHANGED <<op, code, sas_code, generate_header, show_comments, programmer_name,
                   project_name, program_specs, macro_name,
                   processed_code, header, result, given, frame>>

Init ==
    /\ op = "preview" /\ pc = "Start"
    /\ code \in PreviewSources
    /\ generate_header \in BOOLEAN
    /\ show_comments \in BOOLEAN
    /\ programmer_name \in {<<>>, <<"%","m","a","c","r","o"," ","z","(","q",")",";">>}
    /\ project_name \in {<<"P","J">>}
    /\ program_specs \in
          {ProgramSpecs(Some(<<"m","a","c","r","o">>), Some(<<"g","l","o","b","a","l">>),
                        Some(<<"U","t","i","l","i","t","y">>), Some(<<"N","e","w","C","o">>)),
           ProgramSpecs(Some(<<"m","a","c","r","o">>), Absent, Absent, Absent),
           ProgramSpecs(Absent, Absent, Absent, Absent)}
    /\ sas_code = <<>> /\ macro_name = <<>> /\ processed_code = <<>>
    /\ header = Absent
    /\ calls = <<>>
    /\ stages = <<"Start">>
    /\ response = NoResponse
    /\ result = <<>>
    /\ given = <<>>
    /\ frame = <<>>

Next == Start \/ HeaderGen \/ CommentGen \/ ContentGen

Spec == Init /\ [][Next]_vars

-----------------------------------------------------------------------------
(* Properties of preview_documentation (specification Spec).               *)

\* the elements of a sequence
Range(s) == {s[k] : k \in DOMAIN s}

\* the calls of a kind issued so far
CallsOfKind(kind) == {i \in DOMAIN calls : calls[i].kind = kind}

\* the description calls issued so far for the k-th parameter
ParamCallsFor(k) == {i \in DOMAIN calls : calls[i].kind = "param" /\ calls[i].index = k}

\* C1, as stated: a request whose source has no `%macro <name>` construct
\* ends in the NoMacroFound error, and no enrichment call is ever issued.
C1_NoMacroEndsInNoMacroFound ==
    (pc # "Start" /\ ~MacroNameSearch(code).found) =>
        /\ pc = "Error"
        /\ response.error = "No valid SAS macro found in the code"
        /\ calls = <<>>

\* C1, amended: a request whose source has no `%macro <name>` construct
\* ends in a 400 error and no enrichment call is ever issued; the error is
\* NoMacroFound when the trimmed source is not empty, and the "SAS code is
\* required" error when it is.
C1_NoMacroNoEnrichment ==
    ~MacroNameSearch(code).found =>
        /\ calls = <<>>
        /\ pc \in {"Start", "Error"}
        /\ pc = "Error" =>
              /\ response.status = 400
              /\ response.error = IF Strip(code) = <<>>
                                  THEN "SAS code is required"
                                  ELSE "No valid SAS macro found in the code"

C1_Witness ==
    /\ pc = "Error" /\ ~MacroNameSearch(code).found /\ Strip(code) # <<>>
    /\ generate_header /\ show_comments
    /\ response.error = "No valid SAS macro found in the code"

\* the position of a stage in Start, HeaderGen, CommentGen, ContentGen, end
StageRank(stage) ==
    CASE stage = "Start" -> 1 [] stage = "HeaderGen" -> 2
      [] stage = "CommentGen" -> 3 [] stage = "ContentGen" -> 4 [] OTHER -> 5

\* C2, as stated: the stages run in the order Start, HeaderGen (only if
\* requested), CommentGen (only if requested), ContentGen, Done, none
\* entered twice, and in a finished request every enrichment call (header,
\* comments, content, and the description of each parameter) was issued
\* exactly once.
C2_StagesInOrderCallsOnce ==
    /\ \A i, j \in DOMAIN stages : i < j => StageRank(stages[i]) < StageRank(stages[j])
    /\ "HeaderGen" \in Range(stages) => generate_header
    /\ "CommentGen" \in Range(stages) => show_comments
    /\ pc = "Done" =>
          /\ "ContentGen" \in Range(stages)
          /\ Cardinality(CallsOfKind("header")) = IF generate_header THEN 1 ELSE 0
          /\ Cardinality(CallsOfKind("comments")) = IF show_comments THEN 1 ELSE 0
          /\ Cardinality(CallsOfKind("content")) = 1
          /\ \A k \in 1..Len(ParamDecls(sas_code)) : Cardinality(ParamCallsFor(k)) = 1

\* C3: once the header call has failed (raised, or returned text that is
\* not a JSON object), the request has ended in the header-generation
\* error, carries no content, and no comment or documentation call exists.
C3_HeaderFailureAborts ==
    (\E i \in CallsOfKind("header") : Failed(calls[i].reply)) =>
        /\ generate_header
        /\ pc = "Error"
        /\ response.status = 500
        /\ response.error = "Failed to generate header"
        /\ response.content = NoContent
        /\ CallsOfKind("comments") = {} /\ CallsOfKind("content") = {}

C3_Witness ==
    /\ \E i \in CallsOfKind("header") : calls[i].reply.kind = "unparseable"
    /\ show_comments
    /\ pc = "Error"

\* the working source when the header stage is over: the header and a
\* newline before the trimmed source if a header was generated
HeaderPrefixed == IF header.some THEN header.text \o <<"\n">> \o sas_code ELSE sas_code

\* C4: once the comment call has failed, the working source is the one the
\* comment stage received, the request has gone on to ContentGen with it,
\* and it ends in an error only if the documentation call itself failed.
C4_CommentFailureKeepsSource ==
    (\E i \in CallsOfKind("comments") : Failed(calls[i].reply)) =>
        /\ processed_code = HeaderPrefixed
        /\ "ContentGen" \in Range(stages)
        /\ pc = "Done" => response.status = 200 /\ response.code = HeaderPrefixed
        /\ pc = "Error" =>
              /\ response.error = "Failed to generate documentation"
              /\ \E i \in CallsOfKind("content") : Failed(calls[i].reply)

C4_Witness ==
    /\ \E i \in CallsOfKind("comments") : Failed(calls[i].reply)
    /\ header.some
    /\ pc = "Done"
    /\ response.code = header.text \o <<"\n">> \o sas_code

\* C5, as stated: when the documentation call fails, or its result cannot
\* be built into the section mapping (it is no JSON object, or a section
\* body cannot be formatted), the request ends in the documentation error
\* and returns no success response.
C5_ContentFailureIsFatal ==
    /\ (\E i \in CallsOfKind("content") : Failed(calls[i].reply)) =>
          /\ pc = "Error"
          /\ response.status = 500
          /\ response.error = "Failed to generate documentation"
    /\ response.status = 200 =>
          /\ response.content.isdict
          /\ ~response.preview_html.error

\* C6: a successful request returns the display flag generate_header or
\* show_comments, whatever happened to the working source.
C6_ShowCodeIffRequested ==
    pc = "Done" =>
        /\ response.status = 200
        /\ response.show_code = (generate_header \/ show_comments)

C6_Witness ==
    /\ pc = "Done"
    /\ show_comments /\ ~generate_header
    /\ response.code = sas_code
    /\ response.show_code

\* the description calls issued so far, in the order they were issued
ParamCallsIssued == SelectSeq(calls, LAMBDA c : c.kind = "param")

\* C21, as stated: a finished preview request on a macro with N declared
\* parameters has issued exactly N parameter-description calls in total,
\* the k-th of them for the k-th declared parameter, whatever the values
\* of generate_header and show_comments.
C21_OneDescriptionCallPerParameter ==
    pc = "Done" =>
        LET params == ParamDecls(sas_code)
        IN  /\ Len(ParamCallsIssued) = Len(params)
            /\ \A k \in 1..Len(params) :
                  /\ ParamCallsIssued[k].index = k
                  /\ ParamCallsIssued[k].name = ParamName(params[k])

\* C22, as stated: the content a successful preview returns has a
\* Parameters table whose rows are the parameters extracted from the
\* source: one row per declared parameter, in declaration order, with its
\* name and its default, whatever the documentation call returned.
C22_ParametersRowsAreExtracted ==
    pc = "Done" =>
        LET params == ParamDecls(sas_code)
            content == response.content
        IN  /\ content.isdict
            /\ "Parameters" \in DOMAIN content.sections
            /\ content.sections["Parameters"].type = "table"
            /\ LET table_rows == content.sections["Parameters"].rows
               IN  /\ Len(table_rows) = Len(params)
                   /\ \A k \in 1..Len(params) :
                         /\ table_rows[k][1] = Descriptor(params[k], ReplyFail)[1]
                         /\ table_rows[k][2] = Descriptor(params[k], ReplyFail)[2]

\* C27: a request with neither generate_header nor show_comments issues no
\* header call and no comment call, and when it succeeds it returns the
\* trimmed input source as its working source and no header; a request
\* whose header was generated has, when the header stage is over, the
\* header, a newline and the trimmed input source as its working source,
\* and the macro name it reports is the one found in the input source.
C27_FlagsOffLeaveSourceHeaderPrefixes ==
    /\ (~generate_header /\ ~show_comments) =>
          /\ CallsOfKind("header") = {} /\ CallsOfKind("comments") = {}
          /\ processed_code \in {<<>>, Strip(code)}
          /\ pc = "Done" =>
                /\ response.code = Strip(code)
                /\ response.header = Absent
    /\ header.some =>
          /\ generate_header
          /\ (\E i \in CallsOfKind("header") : ~Failed(calls[i].reply))
          /\ CallsOfKind("comments") = {} =>
                processed_code = header.text \o <<"\n">> \o Strip(code)
          /\ macro_name = MacroNameSearch(Strip(code)).group
          /\ pc = "Done" =>
                /\ response.macro_name = MacroNameSearch(Strip(code)).group
                /\ response.header = header
                /\ ~show_comments =>
                      response.code = header.text \o <<"\n">> \o Strip(code)

C27_Witness ==
    /\ pc = "Done"
    /\ generate_header /\ ~show_comments
    /\ code # Strip(code)
    /\ header.some
    /\ response.code = header.text \o <<"\n">> \o Strip(code)
    /\ response.macro_name = <<"m">>

-----------------------------------------------------------------------------
(* The structural extractors, each run on its own on texts assembled from  *)
(* a few pieces. `given` keeps the pieces, so that a property can state    *)
(* what the text declares without reading it through the extractor.        *)

\* the variables only preview_documentation uses
previewVars == <<code, generate_header, show_comments, programmer_name,
                 project_name, program_specs, macro_name, processed_code,
                 header, stages, response>>

\* their value in a run of an extractor
PreviewIdle ==
    /\ code = <<>> /\ generate_header = FALSE /\ show_comments = FALSE
    /\ programmer_name = <<>> /\ project_name = <<>>
    /\ program_specs = ProgramSpecs(Absent, Absent, Absent, Absent)
    /\ macro_name = <<>> /\ processed_code = <<>> /\ header = Absent
    /\ stages = <<>> /\ response = NoResponse

\* all sequences over S of length 0..n
SeqsUpTo(S, n) == UNION {[1..k -> S] : k \in 0..n}

\* those of them that repeat no element
DistinctSeqsUpTo(S, n) ==
    {q \in SeqsUpTo(S, n) : \A a, b \in 1..Len(q) : a # b => q[a] # q[b]}

\* ---- extract_macro_parameters

MaxParams == 3

\* a declared parameter: its name, and its default if it has one
Decl(name, default) == [name |-> name, default |-> default]
DeclPool ==
    {Decl(<<"p","1">>, Some(<<"a">>)), Decl(<<"p","2">>, Absent),
     Decl(<<"p","3">>, Some(<<"c">>)), Decl(<<"p","4">>, Some(<<>>))}

\* the text between two declarations, and the text after the declaration
DeclSeps == {<<",">>, <<",", " ">>, <<",", "\n">>}
MacroTails == {<<>>, <<"\n","%","m","a","c","r","o"," ","z","(","k",")",";">>}

\* name, or name=default
DeclText(d) == IF d.default.some THEN d.name \o <<"=">> \o d.default.text ELSE d.name

\* a macro whose opening construct declares g.decls
TxtMacroM == <<"%","m","a","c","r","o"," ","m","(">>
BuildMacro(g) ==
    TxtMacroM \o Join([k \in 1..Len(g.decls) |-> DeclText(g.decls[k])], g.sep)
              \o <<")", ";">> \o g.tail

\* the replies the collaborator gives to a description call in these runs
ExtractReplies == {ReplyFail, ReplyNoKey, Reply("ok", <<"d">>)}

InitParams ==
    /\ op = "params" /\ pc = "call"
    /\ given \in {[decls |-> ds, sep |-> sep, tail |-> tail] :
                     ds \in DistinctSeqsUpTo(DeclPool, MaxParams),
                     sep \in DeclSeps, tail \in MacroTails}
    /\ sas_code = BuildMacro(given)
    /\ calls = <<>> /\ result = <<>> /\ frame = <<>>
    /\ PreviewIdle

\* extract_macro_parameters(sas_code), its description calls included
ExtractParams ==
    /\ op = "params" /\ pc = "call"
    /\ LET params == ParamDecls(sas_code)
       IN  \E replies \in [1..Len(params) -> ExtractReplies] :
              /\ result' = DescribeParams(params, replies)
              /\ calls' = ParamCallsOf(params, "call", replies)
    /\ pc' = "return"
    /\ UNCHANGED <<op, sas_code, given, frame>>
    /\ UNCHANGED previewVars

NextParams == ExtractParams

SpecParams == InitParams /\ [][NextParams]_vars

\* ---- extract_macro_parameters on declarations whose default holds an
\* `=` or a parenthesised comma, written on one line

MaxDefaults == 2

InitDefaults ==
    /\ op = "params" /\ pc = "call"
    /\ given \in {[decls |-> ds, sep |-> sep, tail |-> <<>>] :
                     ds \in DistinctSeqsUpTo(DeclPool \cup
                               {Decl(<<"p","5">>, Some(<<"a","=","b">>)),
                                Decl(<<"p","6">>, Some(<<"f","(","x",",","y",")">>))},
                               MaxDefaults),
                     sep \in {<<",">>, <<",", " ">>}}
    /\ sas_code = BuildMacro(given)
    /\ calls = <<>> /\ result = <<>> /\ frame = <<>>
    /\ PreviewIdle

SpecDefaults == InitDefaults /\ [][NextParams]_vars

\* ---- find_macro_calls

MaxFrags == 3

\* a piece of source text, and the macro it calls if it is a call
Frag(text, call) == [text |-> text, call |-> call]
CallPool ==
    {Frag(<<"%","f","o","o","(","1",")",";">>, Some(<<"f","o","o">>)),
     Frag(<<"%","f","o","o","(","2",")",";">>, Some(<<"f","o","o">>)),
     Frag(<<"%","b","a","r","(",")",";">>, Some(<<"b","a","r">>)),
     Frag(<<"%","F","o","o"," ","(","3",")",";">>, Some(<<"F","o","o">>)),
     Frag(<<"%","m","a","c","r","o"," ","m","(","a",")",";">>, Absent),
     Frag(<<"x","=","f","(","1",")",";">>, Absent)}

InitCalls ==
    /\ op = "calls" /\ pc = "call"
    /\ given \in SeqsUpTo(CallPool, MaxFrags)
    /\ sas_code = Join([k \in 1..Len(given) |-> given[k].text], <<>>)
    /\ calls = <<>> /\ result = <<>> /\ frame = <<>>
    /\ PreviewIdle

\* find_macro_calls(sas_code)
FindCalls ==
    /\ op = "calls" /\ pc = "call"
    /\ result' \in FindMacroCalls(sas_code)
    /\ pc' = "return"
    /\ UNCHANGED <<op, sas_code, calls, given, frame>>
    /\ UNCHANGED previewVars

NextCalls == FindCalls

SpecCalls == InitCalls /\ [][NextCalls]_vars

\* ---- analyze_macro_structure

MaxLines == 3

LinePool ==
    {<<"d","a","t","a"," ","a",";">>,
     <<"d","a","t","a"," ","_","n","u","l","l","_",";">>,
     <<"d","a","t","a"," "," ","_","n","u","l","l","_",";">>,
     <<" "," ","D","A","T","A"," ","b",";">>,
     <<"p","r","o","c"," ","s","o","r","t",";">>,
     <<"P","R","O","C","\t","p","r","i","n","t",";">>,
     <<"x"," ","="," ","1",";">>}

InitStruct ==
    /\ op = "structure" /\ pc = "call"
    /\ given \in SeqsUpTo(LinePool, MaxLines)
    /\ sas_code = Join(given, <<"\n">>)
    /\ calls = <<>> /\ result = <<>> /\ frame = <<>>
    /\ PreviewIdle

\* analyze_macro_structure(macro_code)
Analyze ==
    /\ op = "structure" /\ pc = "call"
    /\ result' = AnalyzeMacroStructure(sas_code)
    /\ pc' = "return"
    /\ UNCHANGED <<op, sas_code, calls, given, frame>>
    /\ UNCHANGED previewVars

NextStruct == Analyze

SpecStruct == InitStruct /\ [][NextStruct]_vars

-----------------------------------------------------------------------------
(* Properties of the structural extractors.                                *)

\* the same replies with every failed one replaced by a description
RepliesHealed ==
    [k \in 1..Len(calls) |->
        IF Failed(calls[k].reply) THEN Reply("ok", <<"d">>) ELSE calls[k].reply]

\* C7: whichever description calls fail, extract_macro_parameters returns
\* one descriptor per declaration it parsed, in order, with the parsed name
\* and default; a parameter whose call failed carries the non-empty
\* sentence "Parameter <name> for the macro", and every other descriptor
\* is the one returned when no call fails.
C7_FailedDescriptionFallsBack ==
    (op = "params" /\ pc = "return") =>
        LET params == ParamDecls(sas_code)
            healed == DescribeParams(params, RepliesHealed)
        IN  /\ Len(result) = Len(params)
            /\ Len(calls) = Len(params)
            /\ \A k \in 1..Len(params) :
                  /\ result[k][1] = ParamName(params[k])
                  /\ result[k][2] = (IF ParamDefault(params[k]) = <<>> THEN TxtNone
                                     ELSE ParamDefault(params[k]))
                  /\ Failed(calls[k].reply) =>
                        /\ result[k][3] = TxtParameter \o ParamName(params[k])
                                                       \o TxtForTheMacro
                        /\ result[k][3] # <<>>
                  /\ ~Failed(calls[k].reply) =>
                        result[k] = healed[k]

C7_Witness ==
    /\ op = "params" /\ pc = "return"
    /\ Len(result) = 3
    /\ ~Failed(calls[1].reply) /\ Failed(calls[2].reply) /\ calls[3].reply.kind = "ok"
    /\ result[2] = <<<<"p","2">>, TxtNone, TemplatedDescription(<<"p","2">>)>>
    /\ result[3][3] = <<"d">>

\* C8, as stated: the i-th descriptor returned is the i-th parameter the
\* first macro-opening construct declares, with its name and its default,
\* "None" standing for a default that is absent (or empty); for
\* `p1=a, p2, p3=c` that is 3 descriptors with defaults a, None, c.
C8_DescriptorsAreDeclarations ==
    (op = "params" /\ pc = "return") =>
        /\ Len(result) = Len(given.decls)
        /\ \A k \in 1..Len(given.decls) :
              /\ result[k][1] = given.decls[k].name
              /\ result[k][2] = (IF given.decls[k].default.text = <<>> THEN TxtNone
                                 ELSE given.decls[k].default.text)

\* what a declaration states, read as split on its first `=`: the trimmed
\* text before it, and the whole trimmed text after it (empty if no `=`)
FirstEqName(decl) ==
    LET i == FindSep(decl, <<"=">>)
    IN  IF i = 0 THEN Strip(decl) ELSE Strip(SubSeq(decl, 1, i - 1))
FirstEqDefault(decl) ==
    LET i == FindSep(decl, <<"=">>)
    IN  IF i = 0 THEN <<>> ELSE Strip(Tail_(decl, i + 1))

\* C23, as stated: extract_macro_parameters returns one descriptor per
\* declaration, a comma inside parentheses starting no new parameter; the
\* name is the trimmed text before the first `=` of the declaration and
\* the default the whole trimmed text after it, further `=` included (for
\* `p=a=b` the default is `a=b`), "None" standing for no default.
C23_SplitOnFirstEqualsOnly ==
    (op = "params" /\ pc = "return") =>
        /\ Len(result) = Len(given.decls)
        /\ \A k \in 1..Len(given.decls) :
              LET decl == DeclText(given.decls[k])
              IN  /\ result[k][1] = FirstEqName(decl)
                  /\ result[k][2] = (IF FirstEqDefault(decl) = <<>> THEN TxtNone
                                     ELSE FirstEqDefault(decl))

\* the entries of the comma-joined list find_macro_calls returns
CallEntries == IF result = <<>> THEN <<>> ELSE Split(result, <<",", " ">>)

\* the macros the pieces of the text call
CalledNames == {given[k].call.text : k \in {j \in 1..Len(given) : given[j].call.some}}

\* C9: find_macro_calls lists each called macro once, prefixed with %: no
\* two entries are equal however often a macro is called, the entries are
\* the called names, and for %foo(1), %foo(2), %bar() they are %foo and %bar.
C9_CallsListedOnce ==
    (op = "calls" /\ pc = "return") =>
        /\ \A i, j \in 1..Len(CallEntries) : i # j => CallEntries[i] # CallEntries[j]
        /\ Range(CallEntries) = {<<"%">> \o n : n \in CalledNames}
        /\ CalledNames = {<<"f","o","o">>, <<"b","a","r">>} =>
              /\ Len(CallEntries) = 2
              /\ Range(CallEntries) = {<<"%","f","o","o">>, <<"%","b","a","r">>}

C9_Witness ==
    /\ op = "calls" /\ pc = "return"
    /\ Len(given) = 3
    /\ {given[k].text : k \in 1..3} =
          {<<"%","f","o","o","(","1",")",";">>, <<"%","f","o","o","(","2",")",";">>, <<"%","b","a","r","(",")",";">>}
    /\ result = <<"%","b","a","r",","," ","%","f","o","o">>

\* a line opens a step: optional white space, the keyword, white space, a name
StepName(line, keyword) ==
    LET l == LowerText(line)
        s == SpaceRunEnd(l, 1)
        m == SpaceRunEnd(l, s + 4)
    IN  IF LitAt(l, s, keyword) /\ m > s + 4 /\ WordRunEnd(l, m) > m
        THEN Some(SubSeq(l, m, WordRunEnd(l, m) - 1))
        ELSE Absent

\* `data <name>` with a name other than _null_, and `proc <name>`
IsDataOpening(line) ==
    StepName(line, TxtData).some /\ StepName(line, TxtData).text # TxtNull
IsProcOpening(line) == StepName(line, TxtProc).some

\* C10, as stated: data_steps is the number of lines that open a data step
\* on a dataset other than _null_, and proc_steps the number of lines that
\* open a proc step, whatever white space separates keyword and name.
C10_CountsAreOpenings ==
    (op = "structure" /\ pc = "return") =>
        /\ result.data_steps = Cardinality({k \in 1..Len(given) : IsDataOpening(given[k])})
        /\ result.proc_steps = Cardinality({k \in 1..Len(given) : IsProcOpening(given[k])})

-----------------------------------------------------------------------------
(* extract_macros: the line scanner that splits a source into its          *)
(* top-level macros.                                                       *)

TxtMend == <<"%","m","e","n","d">>
NL == <<"\n">>

\* Python's `lit in t`
Contains(t, lit) == \E i \in 1..Len(t) : LitAt(t, i, lit)

\* the local variables of extract_macros while it scans; i is the index of
\* the next line, and levels records macro_level after each line scanned
ScanFrame(lines, i, current_macro, in_macro, macro_level, macros, levels) ==
    [lines |-> lines, i |-> i, current_macro |-> current_macro,
     in_macro |-> in_macro, macro_level |-> macro_level, macros |-> macros,
     levels |-> levels]

\* a closing line ends the capture whatever the depth
ClosesCapture_Always(macro_level) == TRUE

\* `if macro_level == 0:` a closing line ends the capture
ClosesCapture(macro_level) == macro_level = 0

\* one pass of the loop body over `line`
ExtractMacrosLine(f, line) ==
    LET stripped_line == LowerText(Strip(line))
        opens == Contains(stripped_line, TxtMacro)
        closes == Contains(stripped_line, TxtMend)
        opened == IF opens THEN f.macro_level + 1 ELSE f.macro_level
    IN  IF opens /\ ~f.in_macro
        THEN [f EXCEPT !.macro_level = opened, !.in_macro = TRUE,
                       !.current_macro = line \o NL]
        ELSE IF closes
        THEN IF ~f.in_macro
             THEN [f EXCEPT !.macro_level = opened - 1]
             ELSE IF ClosesCapture(opened - 1)
             THEN [f EXCEPT !.macro_level = opened - 1,
                            !.macros = Append(@, Strip(f.current_macro \o line \o NL)),
                            !.in_macro = FALSE, !.current_macro = <<>>]
             ELSE [f EXCEPT !.macro_level = opened - 1,
                            !.current_macro = @ \o line \o NL]
        ELSE IF f.in_macro
        THEN [f EXCEPT !.macro_level = opened, !.current_macro = @ \o line \o NL]
        ELSE [f EXCEPT !.macro_level = opened]

\* what extract_macros returns once the loop is over
ExtractMacrosReturn(f) ==
    IF f.in_macro /\ f.current_macro # <<>>
    THEN Append(f.macros, Strip(f.current_macro))
    ELSE f.macros

MaxSplitLines == 5

\* source lines, each with the constructs it holds
SplitLinePool ==
    LET SLine(text, opening, closing) ==
            [text |-> text, opening |-> opening, closing |-> closing]
    IN
    {SLine(<<"%","m","a","c","r","o"," ","a",";">>, TRUE, FALSE),
     SLine(<<" ","%","M","A","C","R","O"," ","b","(","x",")",";">>, TRUE, FALSE),
     SLine(<<"%","m","e","n","d",";">>, FALSE, TRUE),
     SLine(<<"x","=","1",";">>, FALSE, FALSE),
     SLine(<<"%","m","a","c","r","o"," ","c",";"," ","%","m","e","n","d",";">>, TRUE, TRUE)}

InitSplit ==
    /\ op = "split" /\ pc = "scan"
    /\ given \in SeqsUpTo(SplitLinePool, MaxSplitLines)
    /\ sas_code = Join([k \in 1..Len(given) |-> given[k].text], NL)
    /\ frame = ScanFrame(Split(sas_code, NL), 1, <<>>, FALSE, 0, <<>>, <<>>)
    /\ calls = <<>> /\ result = <<>>
    /\ PreviewIdle

\* extract_macros: the loop body, run on the next line
ScanLine ==
    /\ op = "split" /\ pc = "scan"
    /\ frame.i <= Len(frame.lines)
    /\ LET f == ExtractMacrosLine(frame, frame.lines[frame.i])
       IN  frame' = [f EXCEPT !.i = @ + 1, !.levels = Append(@, f.macro_level)]
    /\ UNCHANGED <<op, pc, sas_code, calls, result, given>>
    /\ UNCHANGED previewVars

\* extract_macros: the end of the loop, and the return
ScanEnd ==
    /\ op = "split" /\ pc = "scan"
    /\ frame.i > Len(frame.lines)
    /\ result' = ExtractMacrosReturn(frame)
    /\ pc' = "return"
    /\ UNCHANGED <<op, sas_code, calls, given, frame>>
    /\ UNCHANGED previewVars

NextSplit == ScanLine \/ ScanEnd

SpecSplit == InitSplit /\ [][NextSplit]_vars

\* ---- properties of extract_macros (specification SpecSplit)

\* the lines a..b of the source, as one text
LinesText(a, b) == Join([k \in 1..(b - a + 1) |-> given[a + k - 1].text], NL)

\* the lines that hold an opening construct, and those that hold a closing one
Openings == {k \in 1..Len(given) : given[k].opening}
Closings == {k \in 1..Len(given) : given[k].closing}

\* the source is one macro that holds one nested pair: two opening lines,
\* then two closing lines, each construct on a line of its own, every other
\* line holding no construct
IsNested ==
    /\ Openings \cap Closings = {}
    /\ Cardinality(Openings) = 2 /\ Cardinality(Closings) = 2
    /\ MaxOf(Openings) < MinOf(Closings)

\* C11: on a source that is one macro holding a nested %macro/%mend pair,
\* the capture is still running after the inner %mend, and extract_macros
\* returns exactly one element: the text from the outer %macro line through
\* the outer %mend line, the inner pair included.
C11_NestedMacroIsOneElement ==
    (op = "split" /\ IsNested) =>
        /\ (pc = "scan" /\ frame.i > MinOf(Closings) /\ frame.i <= MaxOf(Closings)) =>
              (frame.in_macro /\ frame.macros = <<>>)
        /\ pc = "return" =>
              result = <<Strip(LinesText(MinOf(Openings), MaxOf(Closings)))>>

C11_Witness ==
    /\ op = "split" /\ pc = "return"
    /\ Len(given) = 5 /\ IsNested
    /\ Openings = {1, 2} /\ Closings = {4, 5}
    /\ given[2].text = <<" ","%","M","A","C","R","O"," ","b","(","x",")",";">>
    /\ Len(result) = 1
    /\ result[1] = LinesText(1, 5)

\* macro_level before line k is scanned
LevelBefore(k) == IF k = 1 THEN 0 ELSE frame.levels[k - 1]

\* the lines on which macro_level went from 0 to 1
DepthOpenedAt == {k \in 1..Len(frame.levels) : LevelBefore(k) = 0 /\ frame.levels[k] = 1}

\* C12, as stated: when the input ends with macro_level above 0, the value
\* returned is the macros completed during the scan followed by one more
\* element, the lines from the one on which macro_level last went from 0 to
\* 1 to the end of the input.
C12_UnterminatedCaptureIsLast ==
    (op = "split" /\ pc = "return" /\ frame.macro_level > 0) =>
        /\ DepthOpenedAt # {}
        /\ result = Append(frame.macros, Strip(LinesText(MaxOf(DepthOpenedAt), Len(given))))

\* the nesting depth after line k by the count of the constructs passed:
\* one up for every opening construct, one down for every closing one
Declared(k) ==
    Cardinality({j \in Openings : j <= k}) - Cardinality({j \in Closings : j <= k})

\* the line that ends the j-th macro of the source, and the line that starts it
UnitEnd(j) == CHOOSE c \in Closings : Cardinality({x \in Closings : x <= c}) = j
UnitStart(j) == IF j = 1 THEN 1 ELSE UnitEnd(j - 1) + 1

\* the source is made of consecutive well-formed top-level macros: each
\* starts on an opening line, ends at its own %mend, holds no nested macro,
\* and no line stands outside a macro
TopLevelMacros ==
    /\ given # <<>>
    /\ Len(given) \in Closings
    /\ \A k \in 1..Len(given) :
          /\ Declared(k) \in {0, 1}
          /\ k \in Openings => (k = 1 \/ Declared(k - 1) = 0)
    /\ \A j \in 1..Cardinality(Closings) : UnitStart(j) \in Openings

\* C24, as stated: after every line scanned, macro_level is the count of
\* the opening constructs passed less the count of the closing constructs
\* passed, a closing construct on the line that starts a capture included;
\* and a source made of k consecutive well-formed top-level macros is
\* returned as k elements, the macros in source order.
C24_DepthCountsEveryConstruct ==
    op = "split" =>
        /\ \A k \in 1..Len(frame.levels) : frame.levels[k] = Declared(k)
        /\ (pc = "return" /\ TopLevelMacros) =>
              /\ Len(result) = Cardinality(Closings)
              /\ \A j \in 1..Cardinality(Closings) :
                    result[j] = Strip(LinesText(UnitStart(j), UnitEnd(j)))

\* the source is a stray closing line followed by consecutive well-formed
\* top-level macros
StrayMendThenMacros ==
    /\ Len(given) > 1
    /\ 1 \in Closings \ Openings
    /\ Len(given) \in Closings
    /\ \A k \in 2..Len(given) :
          /\ Declared(k) \in {-1, 0}
          /\ k \in Openings => Declared(k - 1) = -1
    /\ \A j \in 2..Cardinality(Closings) : UnitStart(j) \in Openings

\* C26, as stated: in every state of a scan, whatever the input (a %mend
\* line before any %macro line included), macro_level is not negative and
\* a capture is in progress exactly when macro_level is above 0; and a
\* stray closing line before well-formed macros leaves each of them
\* returned as an element of its own.
C26_DepthNeverNegative ==
    op = "split" =>
        /\ frame.macro_level >= 0
        /\ frame.in_macro <=> frame.macro_level > 0
        /\ (pc = "return" /\ StrayMendThenMacros) =>
              /\ Len(result) = Cardinality(Closings) - 1
              /\ \A j \in 2..Cardinality(Closings) :
                    result[j - 1] = Strip(LinesText(UnitStart(j), UnitEnd(j)))

-----------------------------------------------------------------------------
(* format_content of src/document_generator.py: the content formatter.     *)
(* A list or a features mapping is formatted in one step; a string goes    *)
(* through the line classifier, one line per step.                         *)

\* stripped_line = line.strip(), in a variant that removes one leading space
StrippedLine_OneSpace(line) ==
    IF line # <<>> /\ line[1] = " " THEN Tail(line) ELSE line

\* stripped_line = line.strip()
StrippedLine(line) == Strip(line)

\* the examples joined by a single newline
FormatExamples_SingleNewline(items) ==
    Join([k \in 1..Len(items) |-> Strip(items[k])], NL)

\* "\n\n".join(str(example).strip() for example in text)
FormatExamples(items) ==
    Join([k \in 1..Len(items) |-> Strip(items[k])], NL \o NL)

\* the branches for a list and for a mapping with subsections
FormatStructured(value) ==
    IF value.kind = "list" THEN FormatExamples(value.items)
    ELSE Strip(Strip(value.main) \o NL \o
               Join([k \in 1..Len(value.subsections) |->
                        <<"-", " ">> \o value.subsections[k].title \o NL \o
                        <<" ", " ">> \o value.subsections[k].description \o NL],
                    <<>>))

\* the local variables of the line classifier; i is the index of the next
\* line, and returned records what the calls of this run have returned
FormatFrame(lines, i, formatted_lines, in_example, in_numbered_list, in_code_block, returned) ==
    [lines |-> lines, i |-> i, formatted_lines |-> formatted_lines,
     in_example |-> in_example, in_numbered_list |-> in_numbered_list,
     in_code_block |-> in_code_block, returned |-> returned]

\* one pass of the loop body over `line`
FormatLine(f, line) ==
    LET stripped_line == StrippedLine(line)
        d == MinOf({k \in 1..(Len(stripped_line) + 1) :
                       k > Len(stripped_line) \/ stripped_line[k] \notin DigitChars})
    IN  IF stripped_line = <<>> /\ f.formatted_lines = <<>>
        THEN f
        ELSE IF \/ Contains(stripped_line, <<"E","x","a","m","p","l","e",":">>)
                \/ Contains(stripped_line, <<"U","s","a","g","e",":">>)
        THEN IF ~f.in_example
             THEN [f EXCEPT !.formatted_lines = Append(@, NL \o stripped_line),
                            !.in_example = TRUE]
             ELSE f
        ELSE IF LitAt(stripped_line, 1, <<" "," "," "," ">>)
        THEN [f EXCEPT !.formatted_lines = Append(@, <<" "," "," "," ">> \o stripped_line),
                       !.in_code_block = TRUE]
        ELSE IF LitAt(stripped_line, 1, <<"-", " ">>)
        THEN [f EXCEPT !.formatted_lines = Append(@, stripped_line),
                       !.in_code_block = FALSE]
        ELSE [f EXCEPT !.formatted_lines = Append(@, stripped_line),
                       !.in_code_block = FALSE,
                       \* re.match(r'^\d+\.\s', stripped_line)
                       !.in_numbered_list =
                           /\ d > 1 /\ d + 1 <= Len(stripped_line)
                           /\ stripped_line[d] = "." /\ IsSpace(stripped_line[d + 1])]

MaxFormatLines == 4
MaxExamples == 3

\* a line of a section text: "plain", "blank", "code" (4 or more leading
\* spaces), "marker" (holds Example: or Usage:) or "bullet"
FormatLinePool ==
    LET FLine(text, kind) == [text |-> text, kind |-> kind]
    IN
    {FLine(<<"a"," ","b">>, "plain"),
     FLine(<<" "," ","1","."," ","c"," ">>, "plain"),
     FLine(<<>>, "blank"),
     FLine(<<" "," "," "," ","x","=","1",";">>, "code"),
     FLine(<<"E","x","a","m","p","l","e",":"," ","e">>, "marker"),
     FLine(<<"-"," ","i">>, "bullet")}

ExamplePool ==
    {<<"e","x","1">>, <<"e","x","2">>, <<" ","a","\n","b"," ">>,
     <<"\n","c","\n">>, <<"x","\n","\n","y">>}

\* given is the section body handed to format_content
InitFormat ==
    /\ op = "format" /\ pc = "call"
    /\ given \in
          LET FormatValue(kind, lines, items, main, subsections) ==
                  [kind |-> kind, lines |-> lines, items |-> items, main |-> main,
                   subsections |-> subsections]
          IN
          {FormatValue("str", ls, <<>>, <<>>, <<>>) :
              ls \in SeqsUpTo(FormatLinePool, MaxFormatLines) \ {<<>>}}
          \cup {FormatValue("list", <<>>, items, <<>>, <<>>) :
                  items \in SeqsUpTo(ExamplePool, MaxExamples) \ {<<>>}}
          \cup {FormatValue("features", <<>>, <<>>, <<" ","m">>, subs) :
                  subs \in SeqsUpTo({[title |-> <<"t">>, description |-> <<"d"," ">>]}, 1)}
    /\ sas_code = Join([k \in 1..Len(given.lines) |-> given.lines[k].text], NL)
    /\ frame = FormatFrame(<<>>, 1, <<>>, FALSE, FALSE, FALSE, <<>>)
    /\ calls = <<>> /\ result = <<>>
    /\ PreviewIdle

\* format_content(text) for a list or a mapping with subsections
FormatStructuredValue ==
    /\ op = "format" /\ pc = "call" /\ given.kind # "str"
    /\ result' = FormatStructured(given)
    /\ frame' = [frame EXCEPT !.returned = Append(@, FormatStructured(given))]
    /\ pc' = "return"
    /\ UNCHANGED <<op, sas_code, calls, given>>
    /\ UNCHANGED previewVars

\* format_content(text) for a string: lines = text.split('\n')
FormatSplit ==
    /\ op = "format" /\ pc = "call" /\ given.kind = "str"
    /\ frame' = FormatFrame(Split(sas_code, NL), 1, <<>>, FALSE, FALSE, FALSE,
                            frame.returned)
    /\ pc' = "scan"
    /\ UNCHANGED <<op, sas_code, calls, result, given>>
    /\ UNCHANGED previewVars

\* the loop body, run on the next line
FormatLineStep ==
    /\ op = "format" /\ pc = "scan"
    /\ frame.i <= Len(frame.lines)
    /\ frame' = [FormatLine(frame, frame.lines[frame.i]) EXCEPT !.i = @ + 1]
    /\ UNCHANGED <<op, pc, sas_code, calls, result, given>>
    /\ UNCHANGED previewVars

\* return "\n".join(formatted_lines)
FormatReturn ==
    /\ op = "format" /\ pc = "scan"
    /\ frame.i > Len(frame.lines)
    /\ result' = Join(frame.formatted_lines, NL)
    /\ frame' = [frame EXCEPT !.returned = Append(@, Join(frame.formatted_lines, NL))]
    /\ pc' = "return"
    /\ UNCHANGED <<op, sas_code, calls, given>>
    /\ UNCHANGED previewVars

\* format_content applied to what format_content returned
Reformat ==
    /\ op = "format" /\ pc = "return" /\ given.kind = "str"
    /\ Len(frame.returned) = 1
    /\ sas_code' = result
    /\ pc' = "call"
    /\ UNCHANGED <<op, calls, result, given, frame>>
    /\ UNCHANGED previewVars

NextFormat ==
    FormatStructuredValue \/ FormatSplit \/ FormatLineStep \/ FormatReturn \/ Reformat

SpecFormat == InitFormat /\ [][NextFormat]_vars

\* ---- properties of format_content (specification SpecFormat)

\* an example that is not empty once trimmed and holds no blank-line separator
ExampleOk(e) == Strip(e) # <<>> /\ ~Contains(e, NL \o NL)

\* C13: for a list of examples, each non-empty after trimming and free of
\* the blank-line separator, splitting format_content(list) on the
\* separator gives back the trimmed examples in order; ["ex1", "ex2"] comes
\* back as ["ex1", "ex2"].
C13_ExamplesRoundTrip ==
    (/\ op = "format" /\ pc = "return" /\ given.kind = "list"
     /\ \A k \in 1..Len(given.items) : ExampleOk(given.items[k])) =>
        /\ Split(result, NL \o NL) = [k \in 1..Len(given.items) |-> Strip(given.items[k])]
        /\ given.items = <<<<"e","x","1">>, <<"e","x","2">>>> =>
              Split(result, NL \o NL) = <<<<"e","x","1">>, <<"e","x","2">>>>

C13_Witness ==
    /\ op = "format" /\ pc = "return" /\ given.kind = "list"
    /\ given.items = <<<<" ","a","\n","b"," ">>, <<"e","x","2">>, <<"\n","c","\n">>>>
    /\ result = <<"a","\n","b","\n","\n","e","x","2","\n","\n","c">>

\* C14: for a string with no code-block line and no Example:/Usage: marker,
\* format_content applied to its own result returns that result.
C14_FormatIdempotentOnPlain ==
    (/\ op = "format" /\ pc = "return" /\ given.kind = "str"
     /\ Len(frame.returned) = 2
     /\ \A k \in 1..Len(given.lines) : given.lines[k].kind \notin {"code", "marker"}) =>
        frame.returned[2] = frame.returned[1]

C14_Witness ==
    /\ op = "format" /\ pc = "return" /\ given.kind = "str"
    /\ Len(frame.returned) = 2
    /\ [k \in 1..Len(given.lines) |-> given.lines[k].text] =
          <<<<>>, <<" "," ","1","."," ","c"," ">>, <<>>, <<"a"," ","b">>>>
    /\ frame.returned[2] = <<"1","."," ","c","\n","\n","a"," ","b">>

\* C20, as stated: in the line classifier, once a line with 4 or more
\* leading spaces has been scanned, the last line emitted is that line's
\* text prefixed with exactly 4 spaces and code-block mode is on; once any
\* other line has been scanned, code-block mode is off.
C20_IndentedLinesAreCodeLines ==
    (op = "format" /\ pc = "scan" /\ frame.i > 1 /\ frame.returned = <<>>) =>
        LET line == frame.lines[frame.i - 1]
        IN  IF LitAt(line, 1, <<" "," "," "," ">>)
            THEN /\ frame.in_code_block
                 /\ frame.formatted_lines # <<>>
                 /\ frame.formatted_lines[Len(frame.formatted_lines)] =
                       <<" "," "," "," ">> \o Strip(line)
            ELSE ~frame.in_code_block

\* a marker line (it holds Example: or Usage:), and a blank line
IsMarkerLine(line) ==
    \/ Contains(line, <<"E","x","a","m","p","l","e",":">>)
    \/ Contains(line, <<"U","s","a","g","e",":">>)
IsBlankLine(line) == Strip(line) = <<>>

\* example mode after the first k lines, as an Example:/Usage: marker opens
\* it and the next blank line ends it
ExampleModeAfter(k) ==
    \E m \in 1..k :
        /\ IsMarkerLine(frame.lines[m])
        /\ \A b \in (m + 1)..k : ~IsBlankLine(frame.lines[b])

\* the marker lines among the first k lines that open an example
OpeningMarkers(k) ==
    {m \in 1..k : IsMarkerLine(frame.lines[m]) /\ ~ExampleModeAfter(m - 1)}

\* the marker lines emitted so far
EmittedMarkers ==
    {j \in 1..Len(frame.formatted_lines) :
        /\ LitAt(frame.formatted_lines[j], 1, NL)
        /\ IsMarkerLine(frame.formatted_lines[j])}

\* C25, as stated: in every call of format_content on a string the scan
\* starts with the three modes off; after each line scanned, example mode
\* is on exactly when a marker line has been scanned with no blank line
\* after it; and every marker line scanned while example mode was off (the
\* first one, and any one that follows a blank line) has been emitted.
C25_ExampleModeEndsAtBlankLine ==
    (op = "format" /\ pc = "scan") =>
        /\ frame.i = 1 =>
              (~frame.in_example /\ ~frame.in_numbered_list /\ ~frame.in_code_block)
        /\ frame.in_example <=> ExampleModeAfter(frame.i - 1)
        /\ Cardinality(EmittedMarkers) = Cardinality(OpeningMarkers(frame.i - 1))

-----------------------------------------------------------------------------
(* download_documentation of src/app.py and the renderers of               *)
(* src/document_generator.py. A content mapping is the sequence of its     *)
(* (key, body) entries in key order; a renderer is modelled by whether it  *)
(* raises and by the section headings of the artifact it writes. The       *)
(* layout calls of the rendering libraries are left out; what is kept of   *)
(* them is that writing a cell past the last column of a table raises.     *)

SECTION_ORDER ==
    <<<<"O","v","e","r","v","i","e","w">>,
      <<"S","y","n","t","a","x">>,
      <<"P","a","r","a","m","e","t","e","r","s">>,
      <<"K","e","y"," ","F","e","a","t","u","r","e","s"," ","a","n","d"," ","F","u","n","c","t","i","o","n","a","l","i","t","i","e","s">>,
      <<"U","s","a","g","e"," ","E","x","a","m","p","l","e","s">>,
      <<"R","e","t","u","r","n"," ","V","a","l","u","e","s">>,
      <<"E","r","r","o","r"," ","H","a","n","d","l","i","n","g">>,
      <<"V","e","r","s","i","o","n"," ","H","i","s","t","o","r","y">>,
      <<"S","u","m","m","a","r","y">>>>

\* _process_section_name(section): section.rstrip(':').lower()
ProcessSectionName(section) ==
    LET keep == {k \in 1..Len(section) : section[k] # ":"}
    IN  LowerText(IF keep = {} THEN <<>> ELSE SubSeq(section, 1, MaxOf(keep)))

\* the index of the entry under `key`, 0 if the mapping has no such key
KeyIndex(content, key) ==
    LET at == {k \in 1..Len(content) : content[k].key = key}
    IN  IF at = {} THEN 0 ELSE MinOf(at)

\* next((k for k in content.keys() if _process_section_name(k) == section_key),
\* None), as an index
MatchingKey(content, section) ==
    LET at == {k \in 1..Len(content) :
                  ProcessSectionName(content[k].key) = ProcessSectionName(section)}
    IN  IF at = {} THEN 0 ELSE MinOf(at)

\* a row of the table holds more cells than the table has columns
LongRow(body) == \E r \in 1..Len(body.rows) : Len(body.rows[r]) > Len(body.headers)

\* a row of the table and its header differ in length
Malformed(body) == \E r \in 1..Len(body.rows) : Len(body.rows[r]) # Len(body.headers)

\* what a renderer did: it raised, or it wrote an artifact with these headings
Outcome(raised, headings) == [raised |-> raised, headings |-> headings]

\* the sections found under their exact name with a truthy body:
\* `if section not in content or not content[section]: continue`
ExactSections(content) ==
    SelectSeq(SECTION_ORDER,
              LAMBDA n : KeyIndex(content, n) # 0 /\ Truthy(content[KeyIndex(content, n)].body))

\* _create_rtf: sections are looked up by processed name
CreateRtf(content) ==
    LET p == MatchingKey(content, SECTION_ORDER[3])
    IN  IF p # 0 /\ Truthy(content[p].body)
           /\ (content[p].body.type # "table" \/ LongRow(content[p].body))
        THEN {Outcome(TRUE, <<>>)}
        ELSE {Outcome(FALSE, SelectSeq(SECTION_ORDER,
                LAMBDA n : MatchingKey(content, n) # 0
                           /\ Truthy(content[MatchingKey(content, n)].body)))}

\* _create_pdf: the table is built by the library from [headers] + rows,
\* which may or may not accept rows of unequal length
CreatePdf(content) ==
    LET p == KeyIndex(content, SECTION_ORDER[3])
    IN  IF p # 0 /\ Truthy(content[p].body) /\ content[p].body.type # "table"
        THEN {Outcome(TRUE, <<>>)}
        ELSE IF p # 0 /\ Malformed(content[p].body)
        THEN {Outcome(TRUE, <<>>), Outcome(FALSE, ExactSections(content))}
        ELSE {Outcome(FALSE, ExactSections(content))}

\* create_presentation: the table has len(table_headers) columns
CreatePresentation(content) ==
    LET p == KeyIndex(content, SECTION_ORDER[3])
    IN  IF p # 0 /\ (\/ content[p].body.type = "features"
                     \/ content[p].body.type = "table" /\ LongRow(content[p].body))
        THEN {Outcome(TRUE, <<>>)}
        ELSE {Outcome(FALSE, ExactSections(content))}

\* _create_html: one fixed template that reads eight sections by name
CreateHtml(content) ==
    LET names == SelectSeq(SECTION_ORDER, LAMBDA n : n # SECTION_ORDER[8])
        body(k) == content[KeyIndex(content, SECTION_ORDER[k])].body
    IN  IF /\ \A k \in 1..Len(names) : KeyIndex(content, names[k]) # 0
           /\ body(3).type = "table"
           /\ body(4).type = "features"
           /\ body(5).type # "num"
        THEN {Outcome(FALSE, names)}
        ELSE {Outcome(TRUE, <<>>)}

\* the renderer download_documentation and create_manual select
Renderer(output_format) ==
    IF output_format = <<"p","p","t","x">> THEN "create_presentation"
    ELSE IF output_format = <<"p","d","f">> THEN "_create_pdf"
    ELSE IF output_format = <<"h","t","m","l">> THEN "_create_html"
    ELSE "_create_rtf"

\* what the selected renderer may do with the content
RenderOutcomes(renderer, content) ==
    CASE renderer = "create_presentation" -> CreatePresentation(content)
      [] renderer = "_create_pdf" -> CreatePdf(content)
      [] renderer = "_create_html" -> CreateHtml(content)
      [] OTHER -> CreateRtf(content)

MaxSections == 3

\* entries of a content mapping
EntryPool ==
    LET Entry(key, body) == [key |-> key, body |-> body]
    IN
    {Entry(SECTION_ORDER[9], StrBody(<<"s">>)),
     Entry(SECTION_ORDER[1], StrBody(<<"o">>)),
     Entry(SECTION_ORDER[1], StrBody(<<>>)),
     Entry(<<"s","y","n","t","a","x",":">>, StrBody(<<"x">>)),
     Entry(SECTION_ORDER[3], TableBody(<<"Parameter", "Default", "Description">>,
                                       << <<"p", "None", "d">> >>)),
     Entry(SECTION_ORDER[3], TableBody(<<"Parameter", "Default", "Description">>,
                                       << <<"p", "None">> >>)),
     Entry(SECTION_ORDER[3], TableBody(<<"Parameter", "Default", "Description">>,
                                       << <<"p", "None", "d", "e">> >>)),
     Entry(SECTION_ORDER[8], StrBody(<<"v">>))}

\* the entries, followed (if complete) by an entry with a well-formed,
\* populated body for every section of the HTML template that no entry is
\* keyed by
BuildContent(entries, complete) ==
    LET DefaultBody(k) ==
            CASE k = 3 -> TableBody(<<"Parameter", "Default", "Description">>,
                                    << <<"q", "None", "d">> >>)
              [] k = 4 -> FeaturesBody(<<"m">>, <<>>)
              [] k = 5 -> ListBody(<< <<"e">> >>)
              [] OTHER -> StrBody(<<"t">>)
    IN
    IF ~complete THEN entries
    ELSE entries \o
         [k \in 1..Cardinality({j \in 1..7 \cup {9} : KeyIndex(entries, SECTION_ORDER[j]) = 0}) |->
            LET missing == {j \in 1..7 \cup {9} : KeyIndex(entries, SECTION_ORDER[j]) = 0}
                j == CHOOSE j \in missing : Cardinality({m \in missing : m < j}) = k - 1
            IN  [key |-> SECTION_ORDER[j], body |-> DefaultBody(j)]]

\* data.get('outputFormat'): absent, null, or a string
RenderFormats ==
    LET FormatArg(present, null, text) ==
            [present |-> present, null |-> null, text |-> text]
    IN
    {FormatArg(FALSE, FALSE, <<>>), FormatArg(TRUE, TRUE, <<>>),
     FormatArg(TRUE, FALSE, <<"r","t","f">>), FormatArg(TRUE, FALSE, <<"P","D","F">>),
     FormatArg(TRUE, FALSE, <<"p","p","t","x">>), FormatArg(TRUE, FALSE, <<"h","t","m","l">>),
     FormatArg(TRUE, FALSE, <<"d","o","c","x">>)}

\* what download_documentation returns: an error, or the file written by
\* `renderer` with these headings.  The message of a failed render is
\* f'Failed to generate {output_format.upper()} document: {str(e)}'; error
\* keeps its fixed words, the format is in frame and str(e) is the
\* renderer's.  Every other error is the whole message.
DownloadResponse(status, error, renderer, headings) ==
    [status |-> status, error |-> error, renderer |-> renderer, headings |-> headings]

\* The download request, request.json.  `data` is its shape:
\*   "null"   : the body is null (or another falsy value)
\*   "nolist" : an object whose 'content' is missing or is not a list
\*   "empty"  : 'content' is the empty list
\*   "falsy"  : content[0] is null, {} or another falsy value
\*   "str"    : content[0] is a string that is not empty
\*   "doc"    : content[0] is an object with the key 'content'
\* For a "doc", macro_name is doc_data.get('macro_name') (Absent for a
\* missing key or null, else the text) and content is the mapping under
\* doc_data['content']; format is data.get('outputFormat').
InitRender ==
    /\ op = "render" /\ pc = "request"
    /\ given \in
          {[data |-> "doc", macro_name |-> m, format |-> f,
            content |-> BuildContent(es, c)] :
              m \in {Absent, Some(<<>>), Some(<<"m">>)},
              f \in RenderFormats, c \in BOOLEAN,
              es \in {q \in SeqsUpTo(EntryPool, MaxSections) :
                         \A a, b \in 1..Len(q) : a # b => q[a].key # q[b].key}}
          \cup
          {[data |-> d, macro_name |-> Absent, format |-> f, content |-> <<>>] :
              d \in {"null", "nolist", "empty", "falsy", "str"},
              f \in RenderFormats}
    /\ frame = [output_format |-> <<>>, renderer |-> "", output_filename |-> <<>>]
    /\ sas_code = <<>> /\ calls = <<>>
    /\ result = DownloadResponse(0, "", "", <<>>)
    /\ PreviewIdle

\* the request is refused before the format is read (lines 356-368): the
\* status and the error, status 0 when it is not refused
RequestError(request) ==
    CASE request.data \in {"null", "nolist"} ->
            [status |-> 400, error |-> "Invalid request format"]
      [] request.data = "empty" ->
            \* data['content'][0] raises IndexError, caught at line 429
            [status |-> 500, error |-> "list index out of range"]
      [] request.data = "falsy" ->
            [status |-> 400, error |-> "Invalid documentation content"]
      [] request.data = "str" ->
            \* doc_data.get raises AttributeError, caught at line 429
            [status |-> 500, error |-> "'str' object has no attribute 'get'"]
      [] ~request.macro_name.some \/ request.macro_name.text = <<>>
         \/ request.content = <<>> ->
            [status |-> 400, error |-> "Missing required documentation content"]
      [] OTHER -> [status |-> 0, error |-> ""]

\* download_documentation up to the choice of the renderer (lines 353-389)
DownloadRequest ==
    /\ op = "render" /\ pc = "request"
    /\ IF RequestError(given).status # 0
       THEN /\ result' = DownloadResponse(RequestError(given).status,
                                          RequestError(given).error, "", <<>>)
            /\ pc' = "Error"
            /\ UNCHANGED frame
       ELSE IF given.format.present /\ given.format.null
       THEN \* None.lower() raises AttributeError, caught at line 429
            /\ result' = DownloadResponse(500,
                              "'NoneType' object has no attribute 'lower'", "", <<>>)
            /\ pc' = "Error"
            /\ UNCHANGED frame
       ELSE LET output_format == LowerText(IF given.format.present THEN given.format.text
                                           ELSE <<"r","t","f">>)
            IN  /\ frame' = [output_format |-> output_format,
                             renderer |-> Renderer(output_format),
                             output_filename |->
                                 given.macro_name.text
                                 \o <<"_","U","s","e","r","_","M","a","n","u","a","l",".">>
                                 \o output_format]
                /\ pc' = "render"
                /\ UNCHANGED result
    /\ UNCHANGED <<op, sas_code, calls, given>>
    /\ UNCHANGED previewVars

\* the renderer runs; the file is sent, or the failure reported
RenderAndSend ==
    /\ op = "render" /\ pc = "render"
    /\ \E outcome \in RenderOutcomes(frame.renderer, given.content) :
          IF outcome.raised
          THEN /\ result' = DownloadResponse(500, "Failed to generate document",
                                             frame.renderer, <<>>)
               /\ pc' = "Error"
          ELSE /\ result' = DownloadResponse(200, "", frame.renderer, outcome.headings)
               /\ pc' = "Done"
    /\ UNCHANGED <<op, sas_code, calls, given, frame>>
    /\ UNCHANGED previewVars

NextRender == DownloadRequest \/ RenderAndSend

SpecRender == InitRender /\ [][NextRender]_vars

\* ---- properties of the renderers (specification SpecRender)

\* the request has ended, and a renderer was run for it
Rendered == op = "render" /\ pc \in {"Done", "Error"} /\ result.renderer # ""

\* no table of the content has a row that differs in length from its header
WellFormed(content) ==
    \A k \in 1..Len(content) : content[k].body.type = "table" => ~Malformed(content[k].body)

\* the entries whose key is the section name up to case and trailing colons
Variants(content, section) ==
    {k \in 1..Len(content) :
        ProcessSectionName(content[k].key) = ProcessSectionName(section)}

\* the position of a heading in the fixed order
SectionRank(heading) == CHOOSE k \in 1..Len(SECTION_ORDER) : SECTION_ORDER[k] = heading

\* C15, as stated: in the artifact of every renderer the headings follow the
\* fixed order whatever the key order of the mapping, and a mapping that
\* holds just a populated Summary and a populated Overview is rendered with
\* the Overview heading before the Summary heading.
C15_SectionsInFixedOrder ==
    Rendered =>
        /\ \A i, j \in 1..Len(result.headings) :
              i < j => SectionRank(result.headings[i]) < SectionRank(result.headings[j])
        /\ (/\ {given.content[k].key : k \in 1..Len(given.content)} =
                  {SECTION_ORDER[1], SECTION_ORDER[9]}
            /\ \A k \in 1..Len(given.content) : Truthy(given.content[k].body)) =>
              \E i, j \in 1..Len(result.headings) :
                  /\ i < j
                  /\ result.headings[i] = SECTION_ORDER[1]
                  /\ result.headings[j] = SECTION_ORDER[9]

\* C16, as stated: for a mapping with well-formed tables, every renderer
\* writes its artifact; a section that no key names or whose body is empty
\* has no heading in it, and a section found under its name with a body that
\* is not empty has its heading in it.
C16_EmptySectionsOmitted ==
    (Rendered /\ WellFormed(given.content)) =>
        /\ result.status = 200
        /\ \A n \in Range(SECTION_ORDER) :
              /\ (\A k \in Variants(given.content, n) : ~Truthy(given.content[k].body)) =>
                    n \notin Range(result.headings)
              /\ (/\ KeyIndex(given.content, n) # 0
                  /\ Truthy(given.content[KeyIndex(given.content, n)].body)) =>
                    n \in Range(result.headings)

\* C17, as stated: when the only key that names a section is a case or
\* trailing-colon variant of its name (such as "syntax:") and its body is
\* not empty, every renderer writes the section under its heading.
C17_KeyVariantsRecognised ==
    (Rendered /\ WellFormed(given.content)) =>
        \A n \in Range(SECTION_ORDER) :
            (\E k \in 1..Len(given.content) :
                /\ Variants(given.content, n) = {k}
                /\ Truthy(given.content[k].body)) =>
                n \in Range(result.headings)

\* C18, as stated: a request whose Parameters table has a row that differs
\* in length from the header ends in an error, whatever the format, and no
\* artifact is written.
C18_MalformedTableRejected ==
    (/\ op = "render" /\ pc \in {"Done", "Error"}
     /\ KeyIndex(given.content, SECTION_ORDER[3]) # 0
     /\ Malformed(given.content[KeyIndex(given.content, SECTION_ORDER[3])].body)) =>
        /\ result.status # 200
        /\ result.headings = <<>>

\* the format value is missing, null, or names no renderer
Unsupported(format) ==
    \/ ~format.present
    \/ format.null
    \/ LowerText(format.text) \notin
          {<<"r","t","f">>, <<"p","d","f">>, <<"p","p","t","x">>, <<"h","t","m","l">>}

\* C19, as stated: a request whose format value is missing, null or
\* unsupported, with a macro name and a content that are not empty and
\* well-formed tables, ends with the artifact written by _create_rtf, not
\* in an error.
C19_UnsupportedFormatFallsBack ==
    (/\ op = "render" /\ pc \in {"Done", "Error"}
     /\ RequestError(given).status = 0 /\ WellFormed(given.content)
     /\ Unsupported(given.format)) =>
        /\ result.status = 200
        /\ result.renderer = "_create_rtf"

=============================================================================
